---- MODULE Spec2Model ----
(***************************************************************************)
(* A model of the two scripts of the repository:                           *)
(*   stage.py                        the random .nara template generator   *)
(*   scripts/composite_spritesheet.py  the sprite sheet compositor         *)
(*                                                                         *)
(* Python values are modelled as follows.  A dict is a record, a list a    *)
(* sequence, a str a string, an int an integer.  An optional value is a    *)
(* sequence of length at most one: None is <<>> and a present value v is   *)
(* <<v>>.  Every call of the random module is an explicit draw: the        *)
(* generator functions take the outcomes of their draws as a record, and   *)
(* the actions choose that record.  random.random() is drawn in            *)
(* hundredths (0..99, standing for 0.00..0.99).                            *)
(***************************************************************************)
EXTENDS Integers, Sequences, FiniteSets, TLC

VARIABLES
    pc,         \* position of the running script or call
    args,       \* arguments of the call of generate_nara_template
    template,   \* the document generate_nara_template returned
    layoutIn,   \* argument of the call of generate_sidebar_region
    sidebar,    \* the region generate_sidebar_region returned
    cli,        \* parsed command line of stage.py (argparse namespace)
    out,        \* documents printed on standard output by stage.py
    files,      \* files written by stage.py, in the order written
    sprites,    \* the compositor's input: prefix and the sprite files on disk
    saved,      \* the sheets the compositor wrote, in the order written
    raised,     \* TRUE once the compositor run ended with an exception
    img,        \* size of the source image given to load_and_resize
    canvas      \* what load_and_resize computed for img

vars == <<pc, args, template, layoutIn, sidebar, cli, out, files, sprites,
          saved, raised, img, canvas>>

None == <<>>
Some(v) == <<v>>

Min(a, b) == IF a <= b THEN a ELSE b

(***************************************************************************)
(* stage.py: word banks, presets, image urls                               *)
(***************************************************************************)
ADJECTIVES == <<
    "quantum", "neural", "cosmic", "synthetic", "ethereal", "digital",
    "organic", "crystalline", "ambient", "fractal", "temporal", "spatial",
    "kinetic", "radiant", "sublime", "arcane", "prismatic", "infinite">>

NOUNS == <<
    "matrix", "topology", "manifold", "field", "lattice", "network",
    "system", "architecture", "framework", "structure", "membrane", "grid",
    "interface", "protocol", "substrate", "apparatus", "mechanism", "circuit">>

VERBS == <<
    "transform", "synthesize", "modulate", "cascade", "oscillate", "resonate",
    "propagate", "converge", "emerge", "iterate", "evolve", "compose",
    "distribute", "aggregate", "encode", "decode", "transmit", "reflect">>

TECH_WORDS == <<
    "algorithm", "protocol", "bandwidth", "latency", "throughput", "entropy",
    "coherence", "interference", "resonance", "coupling", "gradient", "flux",
    "tensor", "vector", "scalar", "eigen", "fourier", "laplace", "kernel">>

LAYOUT_PRESETS == <<
    [name |-> "poster", imageWidth |-> 40,
     spacing |-> [titleAboveImage |-> 2, captionBelowImage |-> 2,
                  sidebarFromImage |-> 4, footerBelowCaption |-> 3]],
    [name |-> "card", imageWidth |-> 30,
     spacing |-> [titleAboveImage |-> 1, captionBelowImage |-> 1,
                  sidebarFromImage |-> 2, footerBelowCaption |-> 2]],
    [name |-> "banner", imageWidth |-> 80,
     spacing |-> [titleAboveImage |-> 1, captionBelowImage |-> 1,
                  sidebarFromImage |-> 3, footerBelowCaption |-> 2]],
    [name |-> "postcard", imageWidth |-> 35,
     spacing |-> [titleAboveImage |-> 2, captionBelowImage |-> 2,
                  sidebarFromImage |-> 3, footerBelowCaption |-> 2]]>>

IMAGE_URLS == <<
    "https://picsum.photos/400/300",
    "https://picsum.photos/500/400",
    "https://picsum.photos/600/400",
    "https://source.unsplash.com/random/400x300",
    "https://source.unsplash.com/random/500x400">>

\* str.upper() on the words of the two banks random_title draws from.
UPPER_WORDS == <<
    "QUANTUM", "NEURAL", "COSMIC", "SYNTHETIC", "ETHEREAL", "DIGITAL",
    "ORGANIC", "CRYSTALLINE", "AMBIENT", "FRACTAL", "TEMPORAL", "SPATIAL",
    "KINETIC", "RADIANT", "SUBLIME", "ARCANE", "PRISMATIC", "INFINITE",
    "MATRIX", "TOPOLOGY", "MANIFOLD", "FIELD", "LATTICE", "NETWORK",
    "SYSTEM", "ARCHITECTURE", "FRAMEWORK", "STRUCTURE", "MEMBRANE", "GRID",
    "INTERFACE", "PROTOCOL", "SUBSTRATE", "APPARATUS", "MECHANISM", "CIRCUIT">>

upper(w) ==
    LET bank == ADJECTIVES \o NOUNS
    IN  UPPER_WORDS[CHOOSE i \in 1..Len(bank) : bank[i] = w]

\* " ".join(words)
RECURSIVE join(_)
join(words) ==
    IF Len(words) = 0 THEN ""
    ELSE IF Len(words) = 1 THEN words[1]
    ELSE words[1] \o " " \o join(Tail(words))

(***************************************************************************)
(* random_title(word_count): d is the sequence of draws, one per word:     *)
(* d[i].coin is random.choice([True, False]) and d[i].pick the index the   *)
(* following random.choice takes in the bank.  upper() of the joined       *)
(* string is the join of the upper-cased words (a space is its own upper   *)
(* case).                                                                  *)
(***************************************************************************)
random_title(word_count, d) ==
    join([i \in 1..word_count |->
            upper(IF d[i].coin THEN ADJECTIVES[d[i].pick] ELSE NOUNS[d[i].pick])])

\* random_dictionary(size): picks are the positions random.sample drew.
random_dictionary(size, picks) ==
    LET all_words == ADJECTIVES \o NOUNS \o VERBS \o TECH_WORDS
    IN  [i \in 1..Min(size, Len(all_words)) |-> all_words[picks[i]]]

generate_title_region(layout, d) ==
    [id |-> "title",
     type |-> "text",
     position |-> [x |-> "startX",
                   y |-> "startY - " \o ToString(layout.spacing.titleAboveImage)],
     content |-> [static |-> random_title(d.word_count, d.words),
                  transform |-> IF d.u_transform > 30 THEN Some("uppercase") ELSE None],
     layout |-> [alignment |-> <<"center", "left">>[d.alignment],
                 width |-> layout.imageWidth]]

generate_image_region ==
    [id |-> "main-image",
     type |-> "image",
     position |-> [x |-> "startX", y |-> "startY"],
     source |-> "imageUrl"]

generate_caption_region(layout, d) ==
    [id |-> "caption",
     type |-> "text",
     position |-> [x |-> "startX",
                   y |-> "startY + imageHeight + "
                            \o ToString(layout.spacing.captionBelowImage)],
     content |-> [generator |-> "bogus", wordCount |-> d.wordCount],
     layout |-> [wrap |-> TRUE, width |-> layout.imageWidth]]

SIDEBAR_HEADERS == <<"NOTES", "META", "INFO", "DATA", "CONTEXT">>

generate_sidebar_region_own_body_width(layout, d) ==
    LET sidebar_width == d.sidebar_width
    IN  [id |-> "sidebar",
         type |-> "composite",
         position |-> [x |-> "startX + imageWidth + "
                                \o ToString(layout.spacing.sidebarFromImage),
                       y |-> "startY"],
         components |-> <<
            [id |-> "sidebar-header",
             type |-> "text",
             position |-> [x |-> "sidebarX", y |-> "sidebarStartY"],
             content |-> [static |-> SIDEBAR_HEADERS[d.header]]],
            [id |-> "sidebar-divider",
             type |-> "text",
             position |-> [x |-> "sidebarX", y |-> "sidebarStartY + 1"],
             content |-> [repeat |-> "-", count |-> sidebar_width]],
            [id |-> "sidebar-body",
             type |-> "text",
             position |-> [x |-> "sidebarX", y |-> "sidebarStartY + 2"],
             content |-> [generator |-> "bogus", wordCount |-> d.wordCount],
             layout |-> [wrap |-> TRUE, width |-> layout.imageWidth]]>>]

generate_sidebar_region(layout, d) ==
    LET sidebar_width == d.sidebar_width
    IN  [id |-> "sidebar",
         type |-> "composite",
         position |-> [x |-> "startX + imageWidth + "
                                \o ToString(layout.spacing.sidebarFromImage),
                       y |-> "startY"],
         components |-> <<
            [id |-> "sidebar-header",
             type |-> "text",
             position |-> [x |-> "sidebarX", y |-> "sidebarStartY"],
             content |-> [static |-> SIDEBAR_HEADERS[d.header]]],
            [id |-> "sidebar-divider",
             type |-> "text",
             position |-> [x |-> "sidebarX", y |-> "sidebarStartY + 1"],
             content |-> [repeat |-> "-", count |-> sidebar_width]],
            [id |-> "sidebar-body",
             type |-> "text",
             position |-> [x |-> "sidebarX", y |-> "sidebarStartY + 2"],
             content |-> [generator |-> "bogus", wordCount |-> d.wordCount],
             layout |-> [wrap |-> TRUE, width |-> sidebar_width]]>>]

generate_footer_region(layout, d) ==
    [id |-> "footer",
     type |-> "text",
     position |-> [x |-> "startX",
                   y |-> "startY + imageHeight + "
                            \o ToString(layout.spacing.captionBelowImage
                                        + layout.spacing.footerBelowCaption + 2)],
     content |-> [generator |-> "bogus", wordCount |-> d.wordCount,
                  prefix |-> "- ", suffix |-> " -"],
     layout |-> [alignment |-> "center", width |-> layout.imageWidth]]

generate_label_region(d) ==
    [id |-> "label-" \o ToString(d.id),
     type |-> "text",
     position |-> [x |-> "startX + " \o ToString(d.offset_x),
                   y |-> "startY + " \o ToString(d.offset_y)],
     content |-> [static |-> random_title(1, <<d.title>>)]]

\* next((l for l in LAYOUT_PRESETS if l["name"] == layout_preset), LAYOUT_PRESETS[0])
preset_by_name(layout_preset) ==
    LET hits == {i \in 1..Len(LAYOUT_PRESETS) : LAYOUT_PRESETS[i].name = layout_preset}
    IN  IF hits = {} THEN LAYOUT_PRESETS[1]
        ELSE LAYOUT_PRESETS[CHOOSE i \in hits : \A j \in hits : i <= j]

(***************************************************************************)
(* generate_nara_template(name, include_sidebar, include_footer,           *)
(* include_labels, layout_preset).  The three flags are None, <<TRUE>> or  *)
(* <<FALSE>>; name and layout_preset are None or <<string>>.  d holds the  *)
(* outcome of every random draw the call can make.  The box-drawing and    *)
(* dash characters of the divider, prefix and suffix are written "-".      *)
(***************************************************************************)

\* if include_sidebar is None: include_sidebar = random.random() > 0.4
resolve_sidebar(include_sidebar, d) ==
    IF include_sidebar = None THEN d.u_sidebar > 40 ELSE include_sidebar[1]

\* if include_footer is None: include_footer = random.random() > 0.5
resolve_footer(include_footer, d) ==
    IF include_footer = None THEN d.u_footer > 50 ELSE include_footer[1]

resolve_num_labels_ignoring_flag(include_labels, d) == d.labels_0_3

\* num_labels: randint(0, 3) when the flag is None, else randint(1, 3) or 0
resolve_num_labels(include_labels, d) ==
    IF include_labels = None THEN d.labels_0_3
    ELSE IF include_labels[1] THEN d.labels_1_3 ELSE 0

resolve_layout_ignoring_preset(layout_preset, d) == LAYOUT_PRESETS[d.layout]

\* random.choice(LAYOUT_PRESETS) when no preset is named, else the lookup
resolve_layout(layout_preset, d) ==
    IF layout_preset = None THEN LAYOUT_PRESETS[d.layout]
    ELSE preset_by_name(layout_preset[1])

build_regions_footer_first(layout, include_sidebar, include_footer, num_labels, d) ==
    <<generate_title_region(layout, d.title), generate_image_region>>
    \o (IF d.u_caption > 20
        THEN <<generate_caption_region(layout, d.caption)>> ELSE <<>>)
    \o (IF include_footer
        THEN <<generate_footer_region(layout, d.footer)>> ELSE <<>>)
    \o (IF include_sidebar
        THEN <<generate_sidebar_region(layout, d.sidebar)>> ELSE <<>>)
    \o [i \in 1..num_labels |-> generate_label_region(d.labels[i])]

\* the regions list: title, image, then the optional regions in code order
build_regions(layout, include_sidebar, include_footer, num_labels, d) ==
    <<generate_title_region(layout, d.title), generate_image_region>>
    \o (IF d.u_caption > 20
        THEN <<generate_caption_region(layout, d.caption)>> ELSE <<>>)
    \o (IF include_sidebar
        THEN <<generate_sidebar_region(layout, d.sidebar)>> ELSE <<>>)
    \o (IF include_footer
        THEN <<generate_footer_region(layout, d.footer)>> ELSE <<>>)
    \o [i \in 1..num_labels |-> generate_label_region(d.labels[i])]

generate_nara_template(name, include_sidebar, include_footer, include_labels, layout_preset, d) ==
    LET name1 == IF name = None
                 THEN ADJECTIVES[d.adjective] \o "-" \o NOUNS[d.noun]
                 ELSE name[1]
        num_labels == resolve_num_labels(include_labels, d)
        layout == resolve_layout(layout_preset, d)
        regions == build_regions(layout,
                                 resolve_sidebar(include_sidebar, d),
                                 resolve_footer(include_footer, d),
                                 num_labels, d)
    IN  [version |-> "1.0.0",
         type |-> "stage",
         name |-> name1,
         description |-> "Procedurally generated " \o layout.name \o " template",
         parameters |-> [
            imageUrl |-> [type |-> "string",
                          default |-> IMAGE_URLS[d.imageUrl],
                          description |-> "URL of the image to display"],
            cursorPos |-> [type |-> "point",
                           description |-> "Position where the stage will be rendered"]],
         layout |-> [imageWidth |-> layout.imageWidth, spacing |-> layout.spacing],
         regions |-> regions,
         textGenerator |-> [name |-> "bogus",
                            dictionary |-> random_dictionary(d.dict_size, d.dict_picks)],
         storage |-> [text |-> <<"worldData", "lightModeData">>[d.storage_text],
                      images |-> "stagedImageData",
                      ephemeral |-> d.ephemeral,
                      clearKey |-> "Escape"]]

(***************************************************************************)
(* The outcomes of the random draws.  The full ranges are those of the     *)
(* calls in the code; where a product of full ranges is out of reach, the  *)
(* draws that only fill in content are taken together at the low or at     *)
(* the high end of their ranges (Detail(1), Detail(2)).                    *)
(***************************************************************************)
LABEL_ID_LO == 1000
LABEL_ID_HI == 9999

\* number of label ids, counted from LABEL_ID_LO, the model draws among
LabelIdSpan == 2

LabelIds == LABEL_ID_LO..Min(LABEL_ID_LO + LabelIdSpan - 1, LABEL_ID_HI)

AllWordsLen == Len(ADJECTIVES \o NOUNS \o VERBS \o TECH_WORDS)

\* a run of distinct positions, one of the outcomes of random.sample
SamplePicks(start, size) ==
    [i \in 1..Min(size, AllWordsLen) |-> ((start + i - 2) % AllWordsLen) + 1]

Ends(lo, hi, k) == IF k = 1 THEN lo ELSE hi

TitleDetail(k) ==
    [word_count |-> Ends(1, 3, k),
     words |-> [i \in 1..3 |-> [coin |-> (k = 1), pick |-> Ends(1, 18, k)]],
     u_transform |-> Ends(30, 31, k),
     alignment |-> Ends(1, 2, k)]

SidebarDetail(k) ==
    [sidebar_width |-> Ends(25, 35, k), header |-> Ends(1, 5, k),
     wordCount |-> Ends(15, 40, k)]

LabelDetail(k, id) ==
    [offset_x |-> Ends(0, 20, k), offset_y |-> Ends(-10, 30, k), id |-> id,
     title |-> [coin |-> (k = 1), pick |-> Ends(1, 18, k)]]

\* the draws of one call whose structural outcomes are given
Draw(adj, noun, us, uf, l03, l13, lay, uc, ids, k) ==
    [adjective |-> adj, noun |-> noun,
     u_sidebar |-> us, u_footer |-> uf,
     labels_0_3 |-> l03, labels_1_3 |-> l13,
     layout |-> lay,
     title |-> TitleDetail(k),
     u_caption |-> uc,
     caption |-> [wordCount |-> Ends(8, 20, k)],
     sidebar |-> SidebarDetail(k),
     footer |-> [wordCount |-> Ends(1, 3, k)],
     labels |-> [i \in 1..3 |-> LabelDetail(k, ids[i])],
     imageUrl |-> Ends(1, 5, k),
     dict_size |-> Ends(15, 25, k),
     dict_picks |-> SamplePicks(Ends(1, 60, k), Ends(15, 25, k)),
     storage_text |-> Ends(1, 2, k),
     ephemeral |-> (k = 1)]

\* label id draws of a call that makes n labels (the others are not drawn)
LabelIdDraws(n) ==
    {ids \in [1..3 -> LabelIds] : \A i \in 1..3 : i > n => ids[i] = LABEL_ID_LO}

\* the draws a call with arguments a can make; a draw the call does not make
\* is pinned to one value
TemplateDraws(a) ==
    UNION {
      {Draw(adj, 1, us, uf, l03, l13, lay, uc, ids, k) :
          ids \in LabelIdDraws(resolve_num_labels(a.include_labels,
                                   [labels_0_3 |-> l03, labels_1_3 |-> l13])),
          uc \in {20, 21}, k \in {1, 2}} :
      adj \in (IF a.name = None THEN {1, 18} ELSE {1}),
      us \in (IF a.include_sidebar = None THEN {40, 41} ELSE {40}),
      uf \in (IF a.include_footer = None THEN {50, 51} ELSE {50}),
      l03 \in (IF a.include_labels = None THEN 0..3 ELSE {0}),
      l13 \in (IF a.include_labels = Some(TRUE) THEN 1..3 ELSE {1}),
      lay \in (IF a.layout_preset = None THEN 1..Len(LAYOUT_PRESETS) ELSE {1}) }

Flag == {None, Some(TRUE), Some(FALSE)}

PresetNames == {LAYOUT_PRESETS[i].name : i \in 1..Len(LAYOUT_PRESETS)}

\* the arguments of the modelled calls; "tabloid" is a name of no preset
TemplateArgs ==
    [name : {None, Some("demo")},
     include_sidebar : Flag, include_footer : Flag, include_labels : Flag,
     layout_preset : {None} \cup {Some(n) : n \in PresetNames \cup {"tabloid"}}]

(***************************************************************************)
(* Specification SpecTemplate: one call of generate_nara_template          *)
(***************************************************************************)
IdleTemplate == args = None /\ template = None
IdleSidebar == layoutIn = None /\ sidebar = None
IdleMain == cli = None /\ out = <<>> /\ files = <<>>
IdleSheet == sprites = None /\ saved = <<>> /\ raised = FALSE
IdleResize == img = None /\ canvas = None

InitTemplate ==
    /\ pc = "call"
    /\ args \in TemplateArgs
    /\ template = None
    /\ IdleSidebar /\ IdleMain /\ IdleSheet /\ IdleResize

GenerateNaraTemplate ==
    /\ pc = "call"
    /\ \E d \in TemplateDraws(args) :
          template' = generate_nara_template(args.name, args.include_sidebar,
                          args.include_footer, args.include_labels,
                          args.layout_preset, d)
    /\ pc' = "returned"
    /\ UNCHANGED <<args, layoutIn, sidebar, cli, out, files, sprites, saved,
                   raised, img, canvas>>

NextTemplate == GenerateNaraTemplate

SpecTemplate == InitTemplate /\ [][NextTemplate]_vars

(***************************************************************************)
(* Claims about generate_nara_template, checked under SpecTemplate         *)
(***************************************************************************)
startswith(s, prefix) ==
    Len(s) >= Len(prefix) /\ SubSeq(s, 1, Len(prefix)) = prefix

Returned == pc = "returned"

IsLabel(r) == startswith(r.id, "label-")

\* position of a region in the documented order, 0 for any other region
Rank(r) ==
    IF r.id = "title" THEN 1
    ELSE IF r.type = "image" THEN 2
    ELSE IF r.id = "caption" THEN 3
    ELSE IF r.id = "sidebar" THEN 4
    ELSE IF r.id = "footer" THEN 5
    ELSE IF IsLabel(r) THEN 6
    ELSE 0

CountOf(regions, k) == Cardinality({i \in 1..Len(regions) : Rank(regions[i]) = k})

\* C1: the regions list of every returned document is, in this order, exactly
\* one "title", exactly one region of type "image", at most one "caption",
\* at most one "sidebar", at most one "footer" and zero to three "label-"
\* regions, so its length is 2 + caption + sidebar + footer + labels.
C1_RegionsShape ==
    Returned =>
        LET r == template.regions
        IN  /\ \A i \in 1..Len(r) : Rank(r[i]) # 0
            /\ \A i, j \in 1..Len(r) : i < j => Rank(r[i]) <= Rank(r[j])
            /\ Cardinality({i \in 1..Len(r) : r[i].id = "title"}) = 1
            /\ Cardinality({i \in 1..Len(r) : r[i].type = "image"}) = 1
            /\ CountOf(r, 1) = 1 /\ CountOf(r, 2) = 1
            /\ CountOf(r, 3) <= 1 /\ CountOf(r, 4) <= 1 /\ CountOf(r, 5) <= 1
            /\ CountOf(r, 6) \in 0..3
            /\ Len(r) = 2 + CountOf(r, 3) + CountOf(r, 4) + CountOf(r, 5)
                          + CountOf(r, 6)

\* a document with every optional region and three labels
C1_Witness ==
    /\ Returned
    /\ Len(template.regions) = 8
    /\ template.regions[4].id = "sidebar"
    /\ template.regions[5].id = "footer"

\* all ids of a document: the top-level regions and the sidebar's components
AllIds(t) ==
    LET r == t.regions
        top == [i \in 1..Len(r) |-> r[i].id]
        RECURSIVE inner(_)
        inner(i) == IF i > Len(r) THEN <<>>
                    ELSE (IF r[i].type = "composite"
                          THEN [j \in 1..Len(r[i].components) |-> r[i].components[j].id]
                          ELSE <<>>) \o inner(i + 1)
    IN  top \o inner(1)

\* C2: no two regions of a returned document (top-level regions and sidebar
\* components together) have the same id, whatever the random draws are.
C2_UniqueIds ==
    Returned =>
        LET ids == AllIds(template)
        IN  \A i, j \in 1..Len(ids) : i # j => ids[i] # ids[j]

IdCount(t, id) == Cardinality({i \in 1..Len(t.regions) : t.regions[i].id = id})

LabelCount(t) == Cardinality({i \in 1..Len(t.regions) : IsLabel(t.regions[i])})

\* C3: an explicitly set flag is honoured whatever the draws are:
\* include_sidebar / include_footer True gives exactly one region of that id
\* and False none; include_labels False gives no label and True one to three.
C3_FlagsHonoured ==
    Returned =>
        /\ args.include_sidebar = Some(TRUE) => IdCount(template, "sidebar") = 1
        /\ args.include_sidebar = Some(FALSE) => IdCount(template, "sidebar") = 0
        /\ args.include_footer = Some(TRUE) => IdCount(template, "footer") = 1
        /\ args.include_footer = Some(FALSE) => IdCount(template, "footer") = 0
        /\ args.include_labels = Some(FALSE) => LabelCount(template) = 0
        /\ args.include_labels = Some(TRUE) => LabelCount(template) \in 1..3

\* forced sidebar and labels, forced-out footer, three labels drawn
C3_Witness ==
    /\ Returned
    /\ args.include_sidebar = Some(TRUE)
    /\ args.include_footer = Some(FALSE)
    /\ args.include_labels = Some(TRUE)
    /\ IdCount(template, "sidebar") = 1
    /\ IdCount(template, "footer") = 0
    /\ LabelCount(template) = 3

\* the configured values of the four presets, as the claim lists them
ConfiguredWidth(n) ==
    IF n = "poster" THEN 40 ELSE IF n = "card" THEN 30
    ELSE IF n = "banner" THEN 80 ELSE 35

PresetNamed(n) == LAYOUT_PRESETS[CHOOSE i \in 1..Len(LAYOUT_PRESETS) :
                                    LAYOUT_PRESETS[i].name = n]

WidthsFollow(t) ==
    \A i \in 1..Len(t.regions) :
        t.regions[i].id \in {"title", "caption"} =>
            t.regions[i].layout.width = t.layout.imageWidth

UsesPreset(t, n) ==
    /\ t.layout.imageWidth = ConfiguredWidth(n)
    /\ t.layout.imageWidth = PresetNamed(n).imageWidth
    /\ t.layout.spacing = PresetNamed(n).spacing
    /\ WidthsFollow(t)

\* C4: a named preset gives the document that preset's imageWidth (40, 30,
\* 80, 35) and spacing, and the title and caption that width; a name of no
\* preset gives poster; no name gives one of the four presets.
C4_LayoutSelection ==
    Returned =>
        /\ \A n \in PresetNames : args.layout_preset = Some(n) => UsesPreset(template, n)
        /\ (args.layout_preset # None /\ args.layout_preset[1] \notin PresetNames)
              => UsesPreset(template, "poster")
        /\ args.layout_preset = None => \E n \in PresetNames : UsesPreset(template, n)

\* an unknown preset name fell back to poster, with a caption of that width
C4_Witness ==
    /\ Returned
    /\ args.layout_preset = Some("tabloid")
    /\ template.layout.imageWidth = 40
    /\ Len(template.regions) >= 3
    /\ template.regions[3].id = "caption"
    /\ template.regions[3].layout.width = 40

(***************************************************************************)
(* Specification SpecSidebar: one call of generate_sidebar_region, over    *)
(* the full ranges of its three draws                                      *)
(***************************************************************************)
SidebarDraws ==
    [sidebar_width : 25..35, header : 1..Len(SIDEBAR_HEADERS), wordCount : 15..40]

InitSidebar ==
    /\ pc = "call"
    /\ layoutIn \in {Some(LAYOUT_PRESETS[i]) : i \in 1..Len(LAYOUT_PRESETS)}
    /\ sidebar = None
    /\ IdleTemplate /\ IdleMain /\ IdleSheet /\ IdleResize

GenerateSidebarRegion ==
    /\ pc = "call"
    /\ \E d \in SidebarDraws : sidebar' = generate_sidebar_region(layoutIn[1], d)
    /\ pc' = "returned"
    /\ UNCHANGED <<args, template, layoutIn, cli, out, files, sprites, saved,
                   raised, img, canvas>>

NextSidebar == GenerateSidebarRegion

SpecSidebar == InitSidebar /\ [][NextSidebar]_vars

\* C7: every region generate_sidebar_region returns is a "composite" with id
\* "sidebar" and exactly three components, sidebar-header, sidebar-divider,
\* sidebar-body in this order; the header is one of the 5 fixed labels; the
\* divider's count and the body's wrap width are one value in 25..35; the
\* body's wordCount is in 15..40.
C7_SidebarShape ==
    Returned =>
        /\ sidebar.type = "composite"
        /\ sidebar.id = "sidebar"
        /\ Len(sidebar.components) = 3
        /\ [i \in 1..3 |-> sidebar.components[i].id]
              = <<"sidebar-header", "sidebar-divider", "sidebar-body">>
        /\ sidebar.components[1].content.static
              \in {"NOTES", "META", "INFO", "DATA", "CONTEXT"}
        /\ sidebar.components[2].content.count = sidebar.components[3].layout.width
        /\ sidebar.components[2].content.count \in 25..35
        /\ sidebar.components[3].content.wordCount \in 15..40

\* a sidebar at the upper end of every range
C7_Witness ==
    /\ Returned
    /\ sidebar # None
    /\ sidebar.components[1].content.static = "CONTEXT"
    /\ sidebar.components[2].content.count = 35
    /\ sidebar.components[3].layout.width = 35
    /\ sidebar.components[3].content.wordCount = 40

(***************************************************************************)
(* stage.py: generate_batch and main.  A file that was written is a record *)
(* [path, doc]: doc is the document json.dump was given.  What is printed  *)
(* is a record too: [kind |-> "json", doc] for print(json.dumps(template)) *)
(* and [kind |-> "line", text] for a "Generated: ..." line.                *)
(***************************************************************************)

\* os.path.join(directory, filename) for a directory that does not end in
\* "/" and a file name that does not start with "/"
path_join(directory, filename) == directory \o "/" \o filename

\* Python truth value of an optional string: None and "" are false
truthy(s) == s # None /\ s[1] # ""

generate_batch_no_index(count, output_dir, ds) ==
    [i \in 1..count |->
        LET t == generate_nara_template(None, None, None, None, None, ds[i])
        IN  [path |-> path_join(output_dir, t.name \o ".nara"), doc |-> t]]

\* generate_batch(count, output_dir): the files written, in loop order;
\* range(count) is empty when count <= 0
generate_batch(count, output_dir, ds) ==
    [i \in 1..count |->
        LET t == generate_nara_template(None, None, None, None, None, ds[i])
        IN  [path |-> path_join(output_dir, t.name \o "-" \o ToString(i) \o ".nara"),
             doc |-> t]]

generated_lines(written) ==
    [i \in 1..Len(written) |->
        [kind |-> "line", text |-> "Generated: " \o written[i].path]]

\* sidebar = True if args.sidebar else (False if args.no_sidebar else None)
cli_sidebar(a) ==
    IF a.sidebar THEN Some(TRUE) ELSE IF a.no_sidebar THEN Some(FALSE) ELSE None

\* footer = True if args.footer else (False if args.no_footer else None)
cli_footer(a) ==
    IF a.footer THEN Some(TRUE) ELSE IF a.no_footer THEN Some(FALSE) ELSE None

\* labels = args.labels if args.labels else None
cli_labels(a) == IF a.labels THEN Some(a.labels) ELSE None

\* the branch main() takes
main_mode(a) ==
    IF a.stdout THEN "stdout"
    ELSE IF a.count = 1 /\ truthy(a.name) THEN "single"
    ELSE "batch"

\* number of calls of generate_nara_template a run of main() makes
main_calls(a) ==
    IF main_mode(a) = "batch" THEN (IF a.count > 0 THEN a.count ELSE 0) ELSE 1

\* main(): what a run prints and writes; ds[i] are the draws of the i-th
\* call of generate_nara_template
main(a, ds) ==
    LET forced == generate_nara_template(a.name, cli_sidebar(a), cli_footer(a),
                                         cli_labels(a), a.layout, ds[1])
    IN  IF main_mode(a) = "stdout"
        THEN [out |-> <<[kind |-> "json", doc |-> forced]>>, files |-> <<>>]
        ELSE IF main_mode(a) = "single"
        THEN LET written == <<[path |-> path_join(a.output, a.name[1] \o ".nara"),
                               doc |-> forced]>>
             IN  [out |-> generated_lines(written), files |-> written]
        ELSE LET written == generate_batch(a.count, a.output, ds)
             IN  [out |-> generated_lines(written), files |-> written]

\* largest --count of the modelled runs
MaxCount == 2

\* the modelled command lines; --layout is restricted by argparse to the
\* four preset names
CliArgs ==
    [count : -1..MaxCount,
     name : {None, Some(""), Some("demo")},
     output : {"./generated-templates", "out"},
     layout : {None} \cup {Some(n) : n \in PresetNames},
     sidebar : BOOLEAN, no_sidebar : BOOLEAN,
     footer : BOOLEAN, no_footer : BOOLEAN,
     labels : BOOLEAN, stdout : BOOLEAN]

\* structural outcomes of one call taken together:
\* <<u_sidebar, u_footer, labels_0_3, labels_1_3, layout, u_caption, detail>>
MainStructures ==
    { <<41, 51, 3, 3, 3, 21, 2>>,
      <<41, 50, 1, 1, 2, 20, 1>>,
      <<40, 51, 0, 2, 1, 21, 1>> }

\* the draws of one call of generate_nara_template in a run of main()
MainDraws ==
    {Draw(adj, 1, s[1], s[2], s[3], s[4], s[5], s[6],
          <<LABEL_ID_LO, LABEL_ID_LO + 1, LABEL_ID_HI>>, s[7]) :
        adj \in {1, 18}, s \in MainStructures}

InitMain ==
    /\ pc = "start"
    /\ cli \in {Some(a) : a \in CliArgs}
    /\ out = <<>>
    /\ files = <<>>
    /\ IdleTemplate /\ IdleSidebar /\ IdleSheet /\ IdleResize

Main ==
    /\ pc = "start"
    /\ \E ds \in [1..main_calls(cli[1]) -> MainDraws] :
          LET r == main(cli[1], ds)
          IN  out' = r.out /\ files' = r.files
    /\ pc' = "done"
    /\ UNCHANGED <<args, template, layoutIn, sidebar, cli, sprites, saved,
                   raised, img, canvas>>

NextMain == Main

SpecMain == InitMain /\ [][NextMain]_vars

Done == pc = "done"

\* the documents a run of main() produced, printed or written
Produced ==
    {out[i].doc : i \in {j \in 1..Len(out) : out[j].kind = "json"}}
    \cup {files[i].doc : i \in 1..Len(files)}

\* C5: the options that force a region apply to every document a run of
\* main() produces, in each of the three output modes: --sidebar gives every
\* document a "sidebar" region and --no-sidebar (alone) none, --footer and
\* --no-footer likewise, --labels at least one label, --layout X the
\* imageWidth of preset X.
C5_CliFlagsApply ==
    Done =>
        \A t \in Produced :
            /\ cli[1].sidebar => IdCount(t, "sidebar") >= 1
            /\ (cli[1].no_sidebar /\ ~cli[1].sidebar) => IdCount(t, "sidebar") = 0
            /\ cli[1].footer => IdCount(t, "footer") >= 1
            /\ (cli[1].no_footer /\ ~cli[1].footer) => IdCount(t, "footer") = 0
            /\ cli[1].labels => LabelCount(t) >= 1
            /\ \A n \in PresetNames :
                  cli[1].layout = Some(n) => t.layout.imageWidth = ConfiguredWidth(n)

JsonPrinted == {i \in 1..Len(out) : out[i].kind = "json"}

Paths == {files[i].path : i \in 1..Len(files)}

\* C6: with --stdout exactly one JSON document is printed and no file is
\* written, whatever --count is; otherwise with count = 1 and a (non-empty)
\* name exactly one file {output}/{name}.nara is written and holds a document
\* of that name; in every other case the files written are, in this order,
\* {output}/{docname}-{index}.nara for index = 1..count (none when count < 1),
\* docname being the name of the document in the file, and their paths are
\* pairwise distinct.
C6_OutputDispatch ==
    Done =>
        LET a == cli[1]
        IN  /\ a.stdout => Cardinality(JsonPrinted) = 1 /\ files = <<>>
            /\ (~a.stdout /\ a.count = 1 /\ truthy(a.name)) =>
                  /\ Len(files) = 1
                  /\ Cardinality(Paths) = 1
                  /\ files[1].path = a.output \o "/" \o a.name[1] \o ".nara"
                  /\ files[1].doc.name = a.name[1]
            /\ (~a.stdout /\ ~(a.count = 1 /\ truthy(a.name))) =>
                  /\ Len(files) = (IF a.count >= 1 THEN a.count ELSE 0)
                  /\ Cardinality(Paths) = Len(files)
                  /\ \A i \in 1..Len(files) :
                        files[i].path = a.output \o "/" \o files[i].doc.name
                                          \o "-" \o ToString(i) \o ".nara"
            /\ ~a.stdout => JsonPrinted = {}

\* a batch of two files whose documents drew the same name
C6_Witness ==
    /\ Done
    /\ ~cli[1].stdout
    /\ cli[1].count = 2
    /\ Len(files) = 2
    /\ files[1].doc.name = files[2].doc.name
    /\ files[1].path # files[2].path

(***************************************************************************)
(* scripts/composite_spritesheet.py                                        *)
(*                                                                         *)
(* An image is modelled by its size <<width, height>> and by what was      *)
(* pasted on it.  A frame is [kind |-> "transparent", size] for            *)
(* Image.new("RGBA", size, (0, 0, 0, 0)), or [kind |-> "image", ...] for   *)
(* the canvas load_and_resize returns.                                     *)
(***************************************************************************)
WALK_FRAME_SIZE == <<32, 40>>
IDLE_FRAME_SIZE == <<32, 40>>

WALK_FRAMES_PER_DIR == 8
IDLE_FRAMES_PER_DIR == 8

DIRECTIONS == <<"south", "south-west", "west", "north-west",
                "north", "north-east", "east", "south-east">>

SPRITES_DIR == "public/sprites"
OUTPUT_DIR == "public/sprites"

\* scale = min(target_size[0] / img.width, target_size[1] / img.height), as
\* the fraction <<numerator, denominator>> the division is made of
fit_scale(size, target_size) ==
    IF target_size[1] * size[2] <= target_size[2] * size[1]
    THEN <<target_size[1], size[1]>>
    ELSE <<target_size[2], size[2]>>

\* The products n * (num / den) of the modelled range whose exact value is
\* an integer and whose double-precision value lies just below it: in
\* IEEE 754 double arithmetic 49 * (32 / 49) = 31.999999999999996.
ROUNDS_BELOW == {<<49, 32, 49>>}

\* int(n * scale) for scale = num / den in double arithmetic
int_scaled(n, scale) ==
    LET exact == (n * scale[1]) \div scale[2]
    IN  IF <<n, scale[1], scale[2]>> \in ROUNDS_BELOW THEN exact - 1 ELSE exact

\* new_size = (int(img.width * scale), int(img.height * scale))
scaled_size(size, target_size) ==
    LET scale == fit_scale(size, target_size)
    IN  <<int_scaled(size[1], scale), int_scaled(size[2], scale)>>

(***************************************************************************)
(* load_and_resize(path, target_size) for a file holding an image of the   *)
(* given size.  Image.resize rejects a requested size with a side below 1  *)
(* (Pillow: ValueError "height and width must be > 0"); the call then      *)
(* raises and nothing is returned.                                         *)
(***************************************************************************)
load_and_resize(size, target_size) ==
    LET new_size == scaled_size(size, target_size)
        x == (target_size[1] - new_size[1]) \div 2
        y == (target_size[2] - new_size[2]) \div 2
    IN  IF new_size[1] < 1 \/ new_size[2] < 1
        THEN [raised |-> TRUE, source |-> size, new_size |-> new_size, x |-> x, y |-> y]
        ELSE [raised |-> FALSE, kind |-> "image", size |-> target_size,
              source |-> size, new_size |-> new_size, x |-> x, y |-> y]

transparent_frame(frame_size) ==
    [raised |-> FALSE, kind |-> "transparent", size |-> frame_size]

\* the frame of one direction: a missing file gives a transparent frame
direction_frame(file, frame_size) ==
    IF file = None THEN transparent_frame(frame_size)
    ELSE load_and_resize(file[1], frame_size)

\* sheet.paste(frame, (x, y)) for col in range(frames_per_dir)
paste_row(pastes, r, frame, frame_size, frames_per_dir) ==
    LET at == {<<col * frame_size[1], r * frame_size[2]>> :
                  col \in 0..(frames_per_dir - 1)}
    IN  [p \in DOMAIN pastes \cup at |-> IF p \in at THEN frame ELSE pastes[p]]

\* the loop over DIRECTIONS from row r on; an exception ends it
RECURSIVE paste_directions(_, _, _, _, _)
paste_directions(files_on_disk, r, pastes, frame_size, frames_per_dir) ==
    IF r >= Len(DIRECTIONS) THEN [raised |-> FALSE, pastes |-> pastes]
    ELSE LET frame == direction_frame(files_on_disk[DIRECTIONS[r + 1]], frame_size)
         IN  IF frame.raised THEN [raised |-> TRUE, row |-> r]
             ELSE paste_directions(files_on_disk, r + 1,
                                   paste_row(pastes, r, frame, frame_size, frames_per_dir),
                                   frame_size, frames_per_dir)

\* create_spritesheet(sprite_prefix, output_name, frame_size, frames_per_dir):
\* the sheet that is saved, or raised
create_spritesheet(files_on_disk, output_name, frame_size, frames_per_dir) ==
    LET width == frame_size[1] * frames_per_dir
        height == frame_size[2] * 8
        done == paste_directions(files_on_disk, 0, <<>>, frame_size, frames_per_dir)
    IN  IF done.raised THEN done
        ELSE [raised |-> FALSE,
              path |-> OUTPUT_DIR \o "/" \o output_name,
              size |-> <<width, height>>,
              pastes |-> done.pastes]

\* largest side of a sprite given to load_and_resize on its own
MaxDim == 50

\* the sizes of the sprite files of a compositor run: one that is scaled
\* down on both sides, one whose scaled height is below one pixel
SpriteSizes == {<<64, 64>>, <<33, 1>>}

SpriteDirs ==
    [prefix : {"test"},
     files : [{DIRECTIONS[i] : i \in 1..Len(DIRECTIONS)} ->
                 {None} \cup {Some(sz) : sz \in SpriteSizes}]]

(***************************************************************************)
(* Specification SpecSheet: one run of the script, the walk sheet and then *)
(* the idle sheet                                                          *)
(***************************************************************************)
InitSheet ==
    /\ pc = "walk"
    /\ sprites \in {Some(d) : d \in SpriteDirs}
    /\ saved = <<>>
    /\ raised = FALSE
    /\ IdleTemplate /\ IdleSidebar /\ IdleMain /\ IdleResize

RunCreate(output_name, frame_size, frames_per_dir, next) ==
    LET r == create_spritesheet(sprites[1].files, output_name, frame_size,
                                frames_per_dir)
    IN  IF r.raised
        THEN raised' = TRUE /\ saved' = saved /\ pc' = "raised"
        ELSE raised' = FALSE /\ saved' = Append(saved, r) /\ pc' = next

CreateWalkSheet ==
    /\ pc = "walk"
    /\ RunCreate(sprites[1].prefix \o "_walk.png", WALK_FRAME_SIZE,
                 WALK_FRAMES_PER_DIR, "idle")
    /\ UNCHANGED <<args, template, layoutIn, sidebar, cli, out, files, sprites,
                   img, canvas>>

CreateIdleSheet ==
    /\ pc = "idle"
    /\ RunCreate(sprites[1].prefix \o "_idle.png", IDLE_FRAME_SIZE,
                 IDLE_FRAMES_PER_DIR, "done")
    /\ UNCHANGED <<args, template, layoutIn, sidebar, cli, out, files, sprites,
                   img, canvas>>

NextSheet == CreateWalkSheet \/ CreateIdleSheet

SpecSheet == InitSheet /\ [][NextSheet]_vars

(***************************************************************************)
(* Specification SpecResize: one call of load_and_resize with the frame    *)
(* size 32x40                                                              *)
(***************************************************************************)
InitResize ==
    /\ pc = "call"
    /\ img \in {Some(<<w, h>>) : w \in 1..MaxDim, h \in 1..MaxDim}
    /\ canvas = None
    /\ IdleTemplate /\ IdleSidebar /\ IdleMain /\ IdleSheet

LoadAndResize ==
    /\ pc = "call"
    /\ canvas' = load_and_resize(img[1], WALK_FRAME_SIZE)
    /\ pc' = "returned"
    /\ UNCHANGED <<args, template, layoutIn, sidebar, cli, out, files, sprites,
                   saved, raised, img>>

NextResize == LoadAndResize

SpecResize == InitResize /\ [][NextResize]_vars

(***************************************************************************)
(* Claims about the compositor                                             *)
(***************************************************************************)

\* the fixed direction-to-row mapping, as documented
DirectionOfRow(r) ==
    IF r = 0 THEN "south" ELSE IF r = 1 THEN "south-west"
    ELSE IF r = 2 THEN "west" ELSE IF r = 3 THEN "north-west"
    ELSE IF r = 4 THEN "north" ELSE IF r = 5 THEN "north-east"
    ELSE IF r = 6 THEN "east" ELSE "south-east"

\* the frame at cell (r, c) of a sheet of 32x40 frames
HasCell(s, r, c) == <<c * 32, r * 40>> \in DOMAIN s.pastes
Cell(s, r, c) == s.pastes[<<c * 32, r * 40>>]

\* the frame holds what the direction's file calls for
FrameOfFile(frame, file) ==
    IF file = None
    THEN frame.kind = "transparent" /\ frame.size = <<32, 40>>
    ELSE frame.kind = "image" /\ frame.size = <<32, 40>> /\ frame.source = file[1]

SheetHoldsDirections(s) ==
    \A r \in 0..7 : \A c \in 0..((s.size[1] \div 32) - 1) :
        /\ HasCell(s, r, c)
        /\ FrameOfFile(Cell(s, r, c), sprites[1].files[DirectionOfRow(r)])
        /\ Cell(s, r, c) = Cell(s, r, 0)

\* C8: for every subset of the 8 direction files that exists on disk,
\* create_spritesheet runs through all 8 directions without raising, and
\* every cell (r, c) of the finished sheet holds the frame of direction
\* DIRECTIONS[r] (south=0 .. south-east=7): the letterboxed image when the
\* file exists, a transparent frame when it is missing, the same in every
\* column of the row.
C8_EveryDirectionPasted ==
    pc # "walk" =>
        /\ ~raised
        /\ Len(saved) >= 1
        /\ \A i \in 1..Len(saved) : SheetHoldsDirections(saved[i])

\* the same statement for the runs in which no call raised
C8_CellsWhenNotRaised ==
    \A i \in 1..Len(saved) : SheetHoldsDirections(saved[i])

\* a run of the script has ended, by returning or by an exception
RunEnded == pc \in {"done", "raised"}

\* C9: a run of the compositor produces exactly two sheets,
\* {prefix}_walk.png and {prefix}_idle.png, and both are exactly 256x320
\* pixels (8 columns of 32, 8 rows of 40), whichever input sprites are
\* present or missing.
C9_TwoSheetsOf256x320 ==
    RunEnded =>
        /\ Len(saved) = 2
        /\ saved[1].path = "public/sprites/" \o sprites[1].prefix \o "_walk.png"
        /\ saved[2].path = "public/sprites/" \o sprites[1].prefix \o "_idle.png"
        /\ saved[1].size = <<256, 320>>
        /\ saved[2].size = <<256, 320>>

\* the same statement for the sheets that are written: each is 256x320, and
\* a run that returns has written the two
C9_SizesWhenNotRaised ==
    /\ \A i \in 1..Len(saved) : saved[i].size = <<256, 320>>
    /\ pc = "done" =>
          /\ Len(saved) = 2
          /\ saved[1].path = "public/sprites/" \o sprites[1].prefix \o "_walk.png"
          /\ saved[2].path = "public/sprites/" \o sprites[1].prefix \o "_idle.png"

\* C10: for every source image of width and height at least 1, the resized
\* size (nw, nh) satisfies 1 <= nw <= 32 and 1 <= nh <= 40, the paste offsets
\* x = (32 - nw) // 2 and y = (40 - nh) // 2 are non-negative with
\* x + nw <= 32 and y + nh <= 40, and the returned canvas is exactly 32x40.
C10_FitsInsideFrame ==
    Returned =>
        LET nw == canvas.new_size[1]
            nh == canvas.new_size[2]
        IN  /\ 1 <= nw /\ nw <= 32
            /\ 1 <= nh /\ nh <= 40
            /\ canvas.x = (32 - nw) \div 2 /\ canvas.y = (40 - nh) \div 2
            /\ canvas.x >= 0 /\ canvas.y >= 0
            /\ canvas.x + nw <= 32 /\ canvas.y + nh <= 40
            /\ ~canvas.raised
            /\ canvas.size = <<32, 40>>

\* what holds of every source image: the upper bounds and the centring
C10_UpperBoundsOnly ==
    Returned =>
        LET nw == canvas.new_size[1]
            nh == canvas.new_size[2]
        IN  /\ 0 <= nw /\ nw <= 32
            /\ 0 <= nh /\ nh <= 40
            /\ canvas.x >= 0 /\ canvas.y >= 0
            /\ canvas.x + nw <= 32 /\ canvas.y + nh <= 40
            /\ ~canvas.raised => canvas.size = <<32, 40>>

====
